---- MODULE Spec2Model ----
(***************************************************************************)
(* Model of src/intl/src/intl-manager.ts.                                  *)
(*                                                                         *)
(* Two state machines share this module:                                   *)
(*   SpecLocale  - one IntlManager: the locale context (currentLocale,     *)
(*                 intl), the subscription Set and the notification round   *)
(*                 of setLocale, with subscribers that subscribe, dispose,  *)
(*                 call setLocale again, return or throw.                   *)
(*   SpecCompile - compileIntlMessageFiles: the initial fast-glob scan,     *)
(*                 the chokidar watcher and processFile.                    *)
(***************************************************************************)
EXTENDS Integers, Sequences, FiniteSets, TLC

VARIABLES
    \* ---- IntlManager (lines 19-201)
    defaultLocale,      \* this.defaultLocale
    currentLocale,      \* this.currentLocale
    intl,               \* this.intl, the IntlShape built by createIntl
    subs,               \* this._localeSubscriptions: the Set's entry list, in
                        \* insertion order; a deleted entry stays as Empty
                        \* while an iteration is in flight
    disposers,          \* callbacks for which onLocaleChange returned a disposer
    stack,              \* the setLocale calls in progress, outermost first
    unwinding,          \* an exception is travelling up the call stack
    lastCall,           \* history: the setLocale call that ended in the step
                        \* just taken, if one did
    requested,          \* history: the locale most recently handed to the
                        \* constructor or to setLocale
    steps,              \* number of subscriber operations in the current
                        \* outermost call (bounds the model)
    defaultRichTextElements,    \* this.defaultRichTextElements
    lastFormat,         \* history: the formatting call made in the step just
                        \* taken, if one was
    seen,               \* history: per callback, the locale it was last
                        \* notified with since the outermost setLocale began
    \* ---- compileIntlMessageFiles (lines 216-303)
    watch,              \* the `watch` option
    absRoots,           \* watchedFolders are absolute paths (else relative
                        \* to the working directory)
    fs,                 \* the file system: path -> content
    phase,              \* "scanning", "done"; "rejected"/"crashed" when an
                        \* error leaves the scan loop / the watch callback
    yielded,            \* files fg.stream has yielded so far
    watching,           \* the chokidar watcher is attached
    queue,              \* chokidar events not yet delivered to the handler
    active,             \* processFile invocations between their two
                        \* compiler calls
    log,                \* history: the finished processFile invocations
    startFiles,         \* history: definition files present at scan start
    stale,              \* history: file changed since processFile last read it
    changes,            \* history: per file, changes made while the watcher
                        \* is attached
    edits,              \* number of file-system changes so far (bounds the
                        \* model)
    served,             \* history: kinds of the watch events whose path
                        \* reached the compiler service
    \* ---- the coalescing loop of formatToParts (lines 112-129)
    parts,              \* the parts the compiled template produced
    cursor,             \* number of parts the loop has consumed
    result,             \* `result`
    inLiteral,          \* `inLiteral`
    origins             \* history: per entry of result, the type of the part
                        \* that was pushed

localeVars == <<defaultLocale, currentLocale, intl, subs, disposers, stack,
                unwinding, lastCall, requested, steps,
                defaultRichTextElements, lastFormat, seen>>

compileVars == <<watch, absRoots, fs, phase, yielded, watching, queue, active,
                 log, startFiles, stale, changes, edits, served>>

loopVars == <<parts, cursor, result, inLiteral, origins>>

vars == <<localeVars, compileVars, loopVars>>

-----------------------------------------------------------------------------
(* Bounds *)

MaxDepth == 2       \* nesting of setLocale calls
MaxEntries == 3     \* length of the Set's entry list, deleted entries included
MaxSteps == 2       \* subscriber operations inside one outermost setLocale
MaxChanges == 2     \* file-system changes during one run
MaxParts == 3       \* parts a compiled message produces in SpecCoalesce

-----------------------------------------------------------------------------
(* Values *)

\* `locale: string`: any string, the empty string included.
Locales == {"", "en-US", "fr"}

\* Callback identities handed to onLocaleChange.
Callbacks == {"f", "g", "h"}

Empty == "<empty>"      \* marker of a deleted Set entry
None == "<none>"

\* `export const DEFAULT_LOCALE: string = 'en-US'`, the constructor's default.
DEFAULT_LOCALE == "en-US"

\* `undefined`, where an object may stand.
Undefined == [undefined |-> TRUE]

\* An object with no own keys, `{}`.
EmptyMap == [k \in {} |-> None]

\* `defaultRichTextElements: DefaultElements`, the constructor's second
\* argument: a mapping from tag names to element functions.
DefaultElements == {EmptyMap, [b |-> "f1"]}

\* `values?`: absent, or the caller's bindings.
FormatValues == {Undefined, EmptyMap, [i |-> "f2"], [b |-> "f3"]}

\* Nobody has been notified.
Unnotified == [c \in Callbacks |-> None]

\* No formatting call was made.
NoFormat == [op |-> "none"]

-----------------------------------------------------------------------------
(* Helpers on the Set's entry list *)

RECURSIVE Live(_)
\* The entries of the list that are not deleted, in order.
Live(list) ==
    IF list = <<>> THEN <<>>
    ELSE IF Head(list) = Empty THEN Live(Tail(list))
    ELSE <<Head(list)>> \o Live(Tail(list))

LiveSet(list) == {list[i] : i \in 1..Len(list)} \ {Empty}

\* Mutant of SetAdd: an array push in place of Set.prototype.add.
SetAddAlways(list, c) == Append(list, c)

\* Set.prototype.add: appends unless the value is already an entry.
SetAdd(list, c) == IF c \in LiveSet(list) THEN list ELSE Append(list, c)

\* Mutant of SetDelete: the entry is cut out of the list, and the entries
\* after it move up under a running iterator.
SetDeleteSplicing(list, c) == SelectSeq(list, LAMBDA x : x # c)

\* Set.prototype.delete: the entry is replaced by the empty marker.
SetDelete(list, c) ==
    [i \in 1..Len(list) |-> IF list[i] = c THEN Empty ELSE list[i]]

\* With no iterator alive the deleted entries are unobservable: drop them.
Settle(list, stk) == IF stk = <<>> THEN Live(list) ELSE list

\* Mutant of NextEntry: the iteration steps over the entry that follows i.
NextEntrySkipping(list, i) ==
    LET later == {j \in (i+2)..Len(list) : list[j] # Empty}
    IN IF later = {} THEN 0 ELSE CHOOSE j \in later : \A k \in later : j <= k

\* Index of the first live entry after position i, or 0 when there is none:
\* what the Set iterator of `for (const callback of ...)` yields next.
NextEntry(list, i) ==
    LET later == {j \in (i+1)..Len(list) : list[j] # Empty}
    IN IF later = {} THEN 0 ELSE CHOOSE j \in later : \A k \in later : j <= k

-----------------------------------------------------------------------------
(* createIntl: the IntlShape is represented by the configuration it was     *)
(* built from.  The constructor passes `formats`, setLocale does not.       *)

createIntl(cfg) == cfg

\* Mutant of SetLocaleState: the formatter configuration is not rebuilt.
SetLocaleStateStaleIntl(locale) ==
    [currentLocale |-> locale, intl |-> intl]

\* Mutant of SetLocaleState: the default locale is stored, not the argument.
SetLocaleStateDefault(locale) ==
    [currentLocale |-> defaultLocale,
     intl |-> createIntl([defaultLocale |-> defaultLocale, locale |-> locale,
                          formats |-> "default"])]

\* Lines 56-57: the two assignments of setLocale.
SetLocaleState(locale) ==
    [currentLocale |-> locale,
     intl |-> createIntl([defaultLocale |-> defaultLocale, locale |-> locale,
                          formats |-> "default"])]

-----------------------------------------------------------------------------
(* Paths.  A path is [abs, dir, name]: whether it is absolute, its          *)
(* directory segments and the dot-separated components of its file name.   *)
(* The file system is keyed by absolute paths, [dir, name].                *)

\* process.cwd()
Cwd == <<"proj">>

DefSuffix == <<"messages", "js">>                   \* `.messages.js`
OutSuffix == <<"compiled", "messages", "jsona">>    \* `.compiled.messages.jsona`

\* The definition files of the model, as directories below Cwd.
FileA == [dir |-> <<"proj", "app">>, name |-> <<"a">> \o DefSuffix]
FileB == [dir |-> <<"proj", "app", "node_modules", "pkg">>,
          name |-> <<"b">> \o DefSuffix]
FileC == [dir |-> <<"proj", "app", "ui">>, name |-> <<"c">> \o DefSuffix]

DefFiles == {FileA, FileB, FileC}

\* watchedFolders: the one root `app`, given absolute or relative.
RootDir == <<"app">>

EndsWith(seq, suffix) ==
    /\ Len(seq) >= Len(suffix)
    /\ SubSeq(seq, Len(seq) - Len(suffix) + 1, Len(seq)) = suffix

StartsWith(seq, prefix) ==
    /\ Len(seq) >= Len(prefix)
    /\ SubSeq(seq, 1, Len(prefix)) = prefix

\* The absolute path a path names (relative paths are relative to Cwd).
Canon(path) ==
    [dir |-> IF path.abs THEN path.dir ELSE Cwd \o path.dir,
     name |-> path.name]

AbsForm(file) == [abs |-> TRUE, dir |-> file.dir, name |-> file.name]

RelForm(file) ==
    [abs |-> FALSE, dir |-> SubSeq(file.dir, Len(Cwd) + 1, Len(file.dir)),
     name |-> file.name]

\* A file as the globs of line 275 name it: path.join(folder, ...) keeps the
\* folder as given.
RootForm(file, absolute) == IF absolute THEN AbsForm(file) ELSE RelForm(file)

\* Line 275: `**/*.messages.js` below the watched folder.
GlobMatches(path, absolute) ==
    /\ path.abs = absolute
    /\ StartsWith(path.dir, IF absolute THEN Cwd \o RootDir ELSE RootDir)
    /\ Len(path.name) > Len(DefSuffix)
    /\ EndsWith(path.name, DefSuffix)

\* Lines 232-239: the directory names of IGNORE_PATTERNS.
IgnoredDirs ==
    {"node_modules", "target", "native", "dist", "build", "cache", ".cache",
     "__pycache__"}

\* Line 230: `*.compiled.messages.*`, a pattern without a directory part.
MatchesCompiledPattern(path) ==
    /\ path.dir = <<>>
    /\ \E i \in 2..(Len(path.name) - 2) :
            /\ path.name[i] = "compiled"
            /\ path.name[i + 1] = "messages"

\* Mutant of Ignored: the directory patterns are missing from the deny-list.
IgnoredOnlyCompiled(path) == MatchesCompiledPattern(path)

\* Lines 228-240: IGNORE_PATTERNS, as both fast-glob and chokidar apply it.
Ignored(path) ==
    \/ MatchesCompiledPattern(path)
    \/ \E i \in 1..Len(path.dir) : path.dir[i] \in IgnoredDirs

\* isMessageDefinitionsFile of @discord/intl-message-database.
isMessageDefinitionsFile(path) == EndsWith(path.name, DefSuffix)

\* Lines 254-258: fileBasename is the whole path without `.messages.js`, and
\* path.resolve(dirname, basename + suffix) resolves it against dirname.
OutputPath(filePath) ==
    LET stem == SubSeq(filePath.name, 1, Len(filePath.name) - Len(DefSuffix))
        second == [abs |-> filePath.abs, dir |-> filePath.dir,
                   name |-> stem \o OutSuffix]
    IN IF second.abs
       THEN Canon(second)
       ELSE [dir |-> Cwd \o filePath.dir \o second.dir, name |-> second.name]

\* The artifact next to a definition file.
Sibling(file) ==
    [dir |-> file.dir,
     name |-> SubSeq(file.name, 1, Len(file.name) - Len(DefSuffix))
                \o OutSuffix]

\* Every path the model's file system holds.
FsPaths ==
    DefFiles
        \cup {OutputPath(AbsForm(f)) : f \in DefFiles}
        \cup {OutputPath(RelForm(f)) : f \in DefFiles}

-----------------------------------------------------------------------------
(* The state of the part of the program a specification leaves alone *)

NoCompileRun ==
    /\ watch = FALSE
    /\ absRoots = FALSE
    /\ fs = <<>>
    /\ phase = "none"
    /\ yielded = {}
    /\ watching = FALSE
    /\ queue = <<>>
    /\ active = <<>>
    /\ log = <<>>
    /\ startFiles = {}
    /\ stale = <<>>
    /\ changes = <<>>
    /\ edits = 0
    /\ served = {}

NoLoop ==
    /\ parts = <<>>
    /\ cursor = 0
    /\ result = <<>>
    /\ inLiteral = FALSE
    /\ origins = <<>>

NoManager ==
    /\ defaultLocale = DEFAULT_LOCALE
    /\ currentLocale = DEFAULT_LOCALE
    /\ intl = createIntl([defaultLocale |-> DEFAULT_LOCALE,
                          locale |-> DEFAULT_LOCALE,
                          formats |-> "IntlMessageFormat.formats"])
    /\ subs = <<>>
    /\ disposers = {}
    /\ stack = <<>>
    /\ unwinding = FALSE
    /\ lastCall = [kind |-> "none"]
    /\ requested = DEFAULT_LOCALE
    /\ steps = 0
    /\ defaultRichTextElements = EmptyMap
    /\ lastFormat = NoFormat
    /\ seen = Unnotified

-----------------------------------------------------------------------------
(* SpecLocale: the IntlManager *)

NoCall ==
    [kind |-> "none", locale |-> None, atStart |-> {},
     count |-> [c \in Callbacks |-> 0], removed |-> FALSE,
     reentered |-> FALSE, caught |-> FALSE, current |-> None]

\* Lines 38-49: the constructor.
Constructor(locale, elements) ==
    /\ defaultLocale = locale
    /\ currentLocale = locale
    /\ intl = createIntl([defaultLocale |-> locale,
                          locale |-> locale,
                          formats |-> "IntlMessageFormat.formats"])
    /\ defaultRichTextElements = elements
    /\ subs = <<>>
    /\ disposers = {}
    /\ stack = <<>>
    /\ unwinding = FALSE
    /\ lastCall = NoCall
    /\ requested = locale
    /\ steps = 0
    /\ lastFormat = NoFormat
    /\ seen = Unnotified

InitLocale ==
    /\ \E locale \in Locales : Constructor(locale, [b |-> "f1"])
    /\ NoCompileRun
    /\ NoLoop

Top == stack[Len(stack)]

Pop(stk) == SubSeq(stk, 1, Len(stk) - 1)

\* Code that may call the manager is running: the application at top level,
\* or the subscriber callback the innermost round has invoked.
CanCall == ~unwinding /\ (IF stack = <<>> THEN TRUE ELSE Top.running # None)

\* One more subscriber operation fits the bound.
Budget == IF stack = <<>> THEN TRUE ELSE steps < MaxSteps

Spend == IF stack = <<>> THEN 0 ELSE steps + 1

\* How a finished call is remembered.
Finished(frame, how) ==
    [kind |-> how, locale |-> frame.locale, atStart |-> frame.atStart,
     count |-> frame.count, removed |-> frame.removed,
     reentered |-> frame.reentered, caught |-> frame.caught,
     current |-> currentLocale]

\* Lines 55-58: setLocale(locale) up to the start of emitLocaleChange.  It
\* is called from the top level or re-entrantly from a subscriber.
SetLocale(locale) ==
    /\ CanCall
    /\ Budget
    /\ Len(stack) < MaxDepth
    /\ currentLocale' = SetLocaleState(locale).currentLocale
    /\ intl' = SetLocaleState(locale).intl
    /\ stack' = Append(
            [k \in 1..Len(stack) |-> [stack[k] EXCEPT !.reentered = TRUE]],
            [locale |-> locale, iter |-> 0, atStart |-> LiveSet(subs),
             count |-> [c \in Callbacks |-> 0], removed |-> FALSE,
             reentered |-> FALSE, caught |-> FALSE, running |-> None])
    /\ requested' = locale
    /\ lastCall' = NoCall
    /\ steps' = Spend
    /\ seen' = IF stack = <<>> THEN Unnotified ELSE seen
    /\ lastFormat' = NoFormat
    /\ UNCHANGED defaultRichTextElements
    /\ UNCHANGED <<compileVars, loopVars>>
    /\ UNCHANGED <<defaultLocale, subs, disposers, unwinding>>

\* Lines 62-63: the for-of loop yields the next entry and calls it.
Invoke ==
    /\ stack # <<>>
    /\ ~unwinding
    /\ Top.running = None
    /\ NextEntry(subs, Top.iter) # 0
    /\ LET j == NextEntry(subs, Top.iter)
           c == subs[j]
           arg == Top.locale
       IN stack' = [k \in 1..Len(stack) |->
                [stack[k] EXCEPT
                    !.count[c] = IF stack[k].locale = arg THEN @ + 1 ELSE @,
                    !.iter = IF k = Len(stack) THEN j ELSE @,
                    !.running = IF k = Len(stack) THEN c ELSE @]]
    /\ lastCall' = NoCall
    /\ seen' = [seen EXCEPT ![subs[NextEntry(subs, Top.iter)]] = Top.locale]
    /\ lastFormat' = NoFormat
    /\ UNCHANGED defaultRichTextElements
    /\ UNCHANGED <<compileVars, loopVars>>
    /\ UNCHANGED <<defaultLocale, currentLocale, intl, subs, disposers,
                   unwinding, requested, steps>>

\* Lines 64-65 and 59: the loop is exhausted, emitLocaleChange and setLocale
\* return.
Return ==
    /\ stack # <<>>
    /\ ~unwinding
    /\ Top.running = None
    /\ NextEntry(subs, Top.iter) = 0
    /\ lastCall' = Finished(Top, "returned")
    /\ stack' = Pop(stack)
    /\ subs' = Settle(subs, Pop(stack))
    /\ steps' = IF Pop(stack) = <<>> THEN 0 ELSE steps
    /\ seen' = seen
    /\ lastFormat' = NoFormat
    /\ UNCHANGED defaultRichTextElements
    /\ UNCHANGED <<compileVars, loopVars>>
    /\ UNCHANGED <<defaultLocale, currentLocale, intl, disposers, unwinding,
                   requested>>

\* The subscriber returns normally to the loop of line 62.
CallbackReturn ==
    /\ stack # <<>>
    /\ ~unwinding
    /\ Top.running # None
    /\ stack' = [stack EXCEPT ![Len(stack)].running = None]
    /\ lastCall' = NoCall
    /\ seen' = seen
    /\ lastFormat' = NoFormat
    /\ UNCHANGED defaultRichTextElements
    /\ UNCHANGED <<compileVars, loopVars>>
    /\ UNCHANGED <<defaultLocale, currentLocale, intl, subs, disposers,
                   unwinding, requested, steps>>

\* Line 63: the callback ends with an exception (its own, or one of a nested
\* setLocale it does not catch).  Neither emitLocaleChange nor setLocale has
\* a try/catch, so the call ends with that exception.
Throw ==
    /\ stack # <<>>
    /\ Top.running # None
    /\ IF unwinding THEN TRUE ELSE Budget
    /\ lastCall' = Finished(Top, "threw")
    /\ stack' = Pop(stack)
    /\ unwinding' = (Pop(stack) # <<>>)
    /\ subs' = Settle(subs, Pop(stack))
    /\ steps' = IF Pop(stack) = <<>> THEN 0 ELSE steps
    /\ seen' = seen
    /\ lastFormat' = NoFormat
    /\ UNCHANGED defaultRichTextElements
    /\ UNCHANGED <<compileVars, loopVars>>
    /\ UNCHANGED <<defaultLocale, currentLocale, intl, disposers, requested>>

\* A subscriber that called setLocale inside try/catch catches the exception.
Catch ==
    /\ unwinding
    /\ stack # <<>>
    /\ unwinding' = FALSE
    /\ stack' = [k \in 1..Len(stack) |-> [stack[k] EXCEPT !.caught = TRUE]]
    /\ lastCall' = NoCall
    /\ seen' = seen
    /\ lastFormat' = NoFormat
    /\ UNCHANGED defaultRichTextElements
    /\ UNCHANGED <<compileVars, loopVars>>
    /\ UNCHANGED <<defaultLocale, currentLocale, intl, subs, disposers,
                   requested, steps>>

\* Lines 70-73: onLocaleChange(callback).
OnLocaleChange(c) ==
    /\ CanCall
    /\ Budget
    /\ Len(SetAdd(subs, c)) <= MaxEntries
    /\ subs' = SetAdd(subs, c)
    /\ disposers' = disposers \cup {c}
    /\ steps' = Spend
    /\ lastCall' = NoCall
    /\ seen' = IF stack = <<>> THEN Unnotified ELSE seen
    /\ lastFormat' = NoFormat
    /\ UNCHANGED defaultRichTextElements
    /\ UNCHANGED <<compileVars, loopVars>>
    /\ UNCHANGED <<defaultLocale, currentLocale, intl, stack, unwinding,
                   requested>>

\* Line 72: the disposer `() => this._localeSubscriptions.delete(callback)`.
Dispose(c) ==
    /\ CanCall
    /\ Budget
    /\ c \in disposers
    /\ subs' = Settle(SetDelete(subs, c), stack)
    /\ stack' = [k \in 1..Len(stack) |->
            [stack[k] EXCEPT !.removed = @ \/ c \in LiveSet(subs)]]
    /\ steps' = Spend
    /\ lastCall' = NoCall
    /\ seen' = IF stack = <<>> THEN Unnotified ELSE seen
    /\ lastFormat' = NoFormat
    /\ UNCHANGED defaultRichTextElements
    /\ UNCHANGED <<compileVars, loopVars>>
    /\ UNCHANGED <<defaultLocale, currentLocale, intl, disposers, unwinding,
                   requested>>

-----------------------------------------------------------------------------
(* The formatting methods of the IntlManager *)

\* What FormatPartType.literal and the other part types are to the loop.
Literal(text) == [type |-> "literal", value |-> text]

Element(value) == [type |-> "object", value |-> value]

\* Messages: a string, a compiled message object, or a getter function that
\* resolves to one of the two for a locale.
StringMessage(text) == [typeof |-> "string", text |-> text]

CompiledMessage == [typeof |-> "object", name |-> "greeting"]

Getter(name) == [typeof |-> "function", name |-> name]

Messages ==
    {StringMessage("hello"), CompiledMessage, Getter("plain"), Getter("mixed")}

\* `message(locale)`: "plain" is a string in every locale, "mixed" is a
\* string in French only.
Call(getter, locale) ==
    IF getter.name = "plain" THEN StringMessage("hola")
    ELSE IF locale = "fr" THEN StringMessage("salut")
    ELSE CompiledMessage

\* The compiled message "ab<b>..</b>c<i>..</i>": what its formatToParts
\* returns for the bindings it is given.  A tag is rendered by the element
\* function bound to it.
TemplateParts(bindings) ==
    <<Literal("a"), Literal("b")>>
        \o (IF "b" \in DOMAIN bindings THEN <<Element(bindings["b"])>> ELSE <<>>)
        \o <<Literal("c")>>
        \o (IF "i" \in DOMAIN bindings THEN <<Element(bindings["i"])>> ELSE <<>>)

\* The same message through its formatToPlainString: the tags are dropped.
TemplatePlain == "abc"

\* Object spread `{ ...a, ...b }`: the keys of both, b's value where both
\* have the key.
Spread(a, b) ==
    [k \in DOMAIN a \cup DOMAIN b |-> IF k \in DOMAIN b THEN b[k] ELSE a[k]]

\* Mutant of ResolvedValues: the defaults are spread last.
ResolvedValuesDefaultsLast(defaults, values) ==
    [bindings |-> IF values # Undefined THEN Spread(values, defaults) ELSE defaults,
     defaults |-> defaults]

\* Mutant of ResolvedValues: Object.assign(this.defaultRichTextElements,
\* values) in place of the spread.
ResolvedValuesAssign(defaults, values) ==
    [bindings |-> IF values # Undefined THEN Spread(defaults, values) ELSE defaults,
     defaults |-> IF values # Undefined THEN Spread(defaults, values) ELSE defaults]

\* Lines 102-105: resolvedValues, and the defaults object after the
\* expression.
ResolvedValues(defaults, values) ==
    [bindings |-> IF values # Undefined THEN Spread(defaults, values) ELSE defaults,
     defaults |-> defaults]

\* Mutant of CoalesceStep: a literal is appended to the last entry whatever
\* the previous part was.
CoalesceStepAlways(acc, part) ==
    IF acc.result # <<>> /\ part.type = "literal"
    THEN [result |-> [acc.result EXCEPT ![Len(acc.result)] = @ \o part.value],
          inLiteral |-> TRUE,
          origins |-> acc.origins]
    ELSE [result |-> Append(acc.result, part.value),
          inLiteral |-> part.type = "literal",
          origins |-> Append(acc.origins, part.type)]

\* Lines 114-127: one iteration of the coalescing loop.
CoalesceStep(acc, part) ==
    IF acc.inLiteral /\ part.type = "literal"
    THEN [result |-> [acc.result EXCEPT ![Len(acc.result)] = @ \o part.value],
          inLiteral |-> TRUE,
          origins |-> acc.origins]
    ELSE [result |-> Append(acc.result, part.value),
          inLiteral |-> part.type = "literal",
          origins |-> Append(acc.origins, part.type)]

RECURSIVE Coalesce(_, _)
\* Lines 112-129: the loop over all parts, from the accumulator acc.
Coalesce(acc, rest) ==
    IF rest = <<>> THEN acc
    ELSE Coalesce(CoalesceStep(acc, Head(rest)), Tail(rest))

\* Lines 112-113: `const result = []; let inLiteral = false`.
EmptyResult == [result |-> <<>>, inLiteral |-> FALSE, origins |-> <<>>]

\* How a formatting call is remembered: its result or that it threw, whether
\* a compiled message was invoked and with which bindings, and the defaults
\* object after the call.
Formatted(res, threw, invoked, bindings, defaults) ==
    [result |-> res, threw |-> threw, invoked |-> invoked,
     bindings |-> bindings, defaults |-> defaults]

\* Mutant of Resolved: the getter is called with the default locale.
ResolvedDefaultLocale(message) ==
    IF message.typeof = "function" THEN Call(message, defaultLocale)
    ELSE message

\* Lines 99, 160 and 190: `message(this.currentLocale)`.
Resolved(message) ==
    IF message.typeof = "function" THEN Call(message, currentLocale)
    ELSE message

\* Lines 94-130: formatToParts(message, values).
formatToParts(message, values) ==
    IF message.typeof = "string"
    THEN Formatted(<<message.text>>, FALSE, FALSE, Undefined,
                   defaultRichTextElements)
    ELSE IF Resolved(message).typeof = "string"
    THEN Formatted(<<Resolved(message).text>>, FALSE, FALSE, Undefined,
                   defaultRichTextElements)
    ELSE LET resolvedValues == ResolvedValues(defaultRichTextElements, values)
             templateParts == TemplateParts(resolvedValues.bindings)
         IN Formatted(Coalesce(EmptyResult, templateParts).result, FALSE, TRUE,
                      resolvedValues.bindings, resolvedValues.defaults)

\* Lines 155-170: formatToPlainString(message, values).  Line 160 calls the
\* message without testing that it is a function.
formatToPlainString(message, values) ==
    IF message.typeof = "string"
    THEN Formatted(message.text, FALSE, FALSE, Undefined, defaultRichTextElements)
    ELSE IF message.typeof # "function"
    THEN Formatted(None, TRUE, FALSE, Undefined, defaultRichTextElements)
    ELSE IF Resolved(message).typeof = "string"
    THEN Formatted(Resolved(message).text, FALSE, FALSE, Undefined,
                   defaultRichTextElements)
    ELSE Formatted(TemplatePlain, FALSE, TRUE, values, defaultRichTextElements)

\* Lines 141-144: string(message).
string(message) == formatToPlainString(message, Undefined)

\* Lines 184-200: formatToMarkdownString(message, values), the same code as
\* formatToPlainString.
formatToMarkdownString(message, values) ==
    IF message.typeof = "string"
    THEN Formatted(message.text, FALSE, FALSE, Undefined, defaultRichTextElements)
    ELSE IF message.typeof # "function"
    THEN Formatted(None, TRUE, FALSE, Undefined, defaultRichTextElements)
    ELSE IF Resolved(message).typeof = "string"
    THEN Formatted(Resolved(message).text, FALSE, FALSE, Undefined,
                   defaultRichTextElements)
    ELSE Formatted(TemplatePlain, FALSE, TRUE, values, defaultRichTextElements)

\* The application calls a formatting method between locale changes.
Format(op, message, values, outcome) ==
    /\ stack = <<>>
    /\ lastFormat' = [op |-> op, message |-> message, values |-> values,
                      locale |-> currentLocale, before |-> defaultRichTextElements,
                      outcome |-> outcome]
    /\ defaultRichTextElements' = outcome.defaults
    /\ lastCall' = NoCall
    /\ seen' = Unnotified
    /\ UNCHANGED <<defaultLocale, currentLocale, intl, subs, disposers, stack,
                   unwinding, requested, steps>>
    /\ UNCHANGED <<compileVars, loopVars>>

FormatToParts(message, values) ==
    Format("formatToParts", message, values, formatToParts(message, values))

FormatToPlainString(message, values) ==
    Format("formatToPlainString", message, values,
           formatToPlainString(message, values))

String(message) ==
    Format("string", message, Undefined, string(message))

FormatToMarkdownString(message, values) ==
    Format("formatToMarkdownString", message, values,
           formatToMarkdownString(message, values))

-----------------------------------------------------------------------------
(* SpecCoalesce: the coalescing loop of formatToParts, one iteration per
   step, over every part sequence a compiled message may produce *)

\* The parts a sequence is made of: literals (the empty one included) and
\* other parts, one of which carries a string as its value.
PartAlphabet ==
    {Literal("x"), Literal("y"), Literal(""), Element("f1"), Element("x")}

PartSequences ==
    UNION {[1..n -> PartAlphabet] : n \in 0..MaxParts}

\* Lines 106-113: the parts are there, the loop has not begun.
InitCoalesce ==
    /\ parts \in PartSequences
    /\ cursor = 0
    /\ result = EmptyResult.result
    /\ inLiteral = EmptyResult.inLiteral
    /\ origins = EmptyResult.origins
    /\ NoManager
    /\ NoCompileRun

\* Lines 114-127: the loop body runs for the next part.
LoopStep ==
    /\ cursor < Len(parts)
    /\ LET after == CoalesceStep([result |-> result, inLiteral |-> inLiteral,
                                  origins |-> origins], parts[cursor + 1])
       IN /\ result' = after.result
          /\ inLiteral' = after.inLiteral
          /\ origins' = after.origins
    /\ cursor' = cursor + 1
    /\ UNCHANGED parts
    /\ UNCHANGED <<localeVars, compileVars>>

NextCoalesce == LoopStep

SpecCoalesce == InitCoalesce /\ [][NextCoalesce]_vars

-----------------------------------------------------------------------------
(* SpecLocale: setLocale, its notification round and the subscribers *)

NextLocale ==
    \/ \E locale \in Locales : SetLocale(locale)
    \/ Invoke
    \/ Return
    \/ CallbackReturn
    \/ Throw
    \/ Catch
    \/ \E c \in Callbacks : OnLocaleChange(c)
    \/ \E c \in Callbacks : Dispose(c)

SpecLocale == InitLocale /\ [][NextLocale]_vars

\* SpecFormat: an application that formats messages, changes the locale and
\* subscribes; its subscribers do not call back into the manager.
NextFormat ==
    \/ \E locale \in Locales : stack = <<>> /\ SetLocale(locale)
    \/ Invoke
    \/ CallbackReturn
    \/ Return
    \/ \E c \in Callbacks : stack = <<>> /\ OnLocaleChange(c)
    \/ \E c \in Callbacks : stack = <<>> /\ Dispose(c)
    \/ \E m \in Messages, v \in FormatValues : FormatToParts(m, v)
    \/ \E m \in Messages, v \in FormatValues : FormatToPlainString(m, v)
    \/ \E m \in Messages : String(m)
    \/ \E m \in Messages, v \in FormatValues : FormatToMarkdownString(m, v)

InitFormat ==
    /\ \E locale \in Locales, elements \in DefaultElements :
            Constructor(locale, elements)
    /\ NoCompileRun
    /\ NoLoop

SpecFormat == InitFormat /\ [][NextFormat]_vars

-----------------------------------------------------------------------------
(* SpecCompile: compileIntlMessageFiles, processFile and the file system *)

\* A file matches the globs and no ignore pattern: what both fg.stream
\* (lines 280-285) and chokidar.watch (line 293) select.
Selected(file) ==
    /\ GlobMatches(RootForm(file, absRoots), absRoots)
    /\ ~Ignored(RootForm(file, absRoots))

\* Mutant of Idle: processFile suspends between its two compiler calls.
IdleAlways == TRUE

\* Lines 247-266: processFile has no await, so it runs to completion before
\* the scan loop or a watch callback can call it again.
Idle == active = <<>>

\* Mutant of TryCatch: the compiler calls are not wrapped.
NoTryCatch == FALSE

\* Lines 252, 262-265: the try/catch around both compiler calls.
TryCatch == TRUE

\* Mutant of ScanExhausted: the loop is left after the first file.
ScanExhaustedEarly(found) == found # {}

\* Lines 280-287: the for-await loop ends when fg.stream has yielded every
\* selected file of the tree it traversed.
ScanExhausted(found) == \A f \in startFiles : Selected(f) => f \in found

\* Mutant of InitialEvents: ignoreInitial is off, attaching reports every
\* file that is already there.
InitialEventsAdd(files) ==
    LET RECURSIVE Adds(_)
        Adds(S) ==
            IF S = {} THEN <<>>
            ELSE LET f == CHOOSE g \in S : TRUE
                 IN <<[kind |-> "add", path |-> RootForm(f, absRoots)]>>
                        \o Adds(S \ {f})
    IN Adds({f \in files : Selected(f)})

\* Line 293: `ignoreInitial: true`, attaching reports nothing.
InitialEvents(files) == <<>>

\* The chokidar event a change of `file` produces: one event for a selected
\* file while the watcher is attached, nothing otherwise.
Emit(file, kind) ==
    IF watching /\ Selected(file)
    THEN Append(queue, [kind |-> kind, path |-> RootForm(file, absRoots)])
    ELSE queue

Entry(filePath, src, outcome) ==
    [path |-> filePath, src |-> src, outcome |-> outcome]

\* Lines 262-265: an error of a compiler call is caught and logged; were it
\* not, it would reject the scan's promise or escape the watch callback.
Failure(filePath, src) ==
    IF TryCatch
    THEN /\ log' = Append(log, Entry(filePath, src, "failed"))
         /\ phase' = phase
    ELSE /\ log' = Append(log, Entry(filePath, src, "thrown"))
         /\ phase' = IF src = "scan" THEN "rejected" ELSE "crashed"

\* Lines 247-260: processFile up to and including processDefinitionsFile,
\* which reads and parses the file and throws when it cannot.
ProcessFileStart(filePath, src) ==
    IF ~isMessageDefinitionsFile(filePath)
    THEN /\ log' = Append(log, Entry(filePath, src, "skipped"))
         /\ UNCHANGED <<active, stale, phase>>
    ELSE /\ stale' = [stale EXCEPT ![Canon(filePath)] = FALSE]
         /\ IF fs[Canon(filePath)] = "good"
            THEN /\ active' = Append(active,
                        [path |-> filePath, src |-> src,
                         out |-> OutputPath(filePath)])
                 /\ UNCHANGED <<log, phase>>
            ELSE /\ Failure(filePath, src)
                 /\ UNCHANGED active

InitCompile ==
    /\ NoManager
    /\ watch \in BOOLEAN
    /\ absRoots \in BOOLEAN
    /\ \E a \in {"good", "bad"}, c \in {"absent", "good"} :
        fs = [f \in FsPaths |->
                IF f = FileA THEN a
                ELSE IF f = FileB THEN "good"
                ELSE IF f = FileC THEN c
                ELSE IF f = Sibling(FileA) THEN "old"
                ELSE "absent"]
    /\ phase = "scanning"
    /\ yielded = {}
    /\ watching = FALSE
    /\ queue = <<>>
    /\ active = <<>>
    /\ log = <<>>
    /\ startFiles = {f \in DefFiles : fs[f] # "absent"}
    /\ stale = [f \in DefFiles |-> fs[f] # "absent"]
    /\ changes = [f \in DefFiles |-> 0]
    /\ edits = 0
    /\ served = {}
    /\ NoLoop

\* The book-keeping of one change of a definition file.
Changed(file, content, kind) ==
    /\ edits < MaxChanges
    /\ edits' = edits + 1
    /\ fs' = [fs EXCEPT ![file] = content]
    /\ queue' = Emit(file, kind)
    /\ stale' = [stale EXCEPT ![file] = content # "absent"]
    /\ changes' = [changes EXCEPT ![file] = IF watching THEN @ + 1 ELSE @]
    /\ UNCHANGED <<watch, absRoots, phase, yielded, watching, active, log,
                   startFiles, served>>
    /\ UNCHANGED <<localeVars, loopVars>>

\* A developer saves a definition file.
Modify(file, content) ==
    /\ fs[file] \in {"good", "bad"}
    /\ Changed(file, content, "change")

\* A developer creates a definition file.
Create(file, content) ==
    /\ fs[file] = "absent"
    /\ Changed(file, content, "add")

\* A developer deletes a definition file (modelled once the scan is over).
Delete(file) ==
    /\ fs[file] \in {"good", "bad"}
    /\ phase # "scanning"
    /\ Changed(file, "absent", "unlink")

\* Lines 280-287: fg.stream yields one more selected file, as an absolute
\* path, and the loop body passes it to processFile.
ScanNext(file) ==
    /\ phase = "scanning"
    /\ Idle
    /\ fs[file] # "absent"
    /\ file \notin yielded
    /\ Selected(file)
    /\ yielded' = yielded \cup {file}
    /\ ProcessFileStart(AbsForm(file), "scan")
    /\ UNCHANGED <<watch, absRoots, fs, watching, queue, startFiles, changes,
                   edits, served>>
    /\ UNCHANGED <<localeVars, loopVars>>

\* Lines 288-301: the loop has ended; the watcher is attached when `watch`
\* is set, and the promise resolves.
FinishScan ==
    /\ phase = "scanning"
    /\ Idle
    /\ ScanExhausted(yielded)
    /\ phase' = "done"
    /\ watching' = watch
    /\ queue' = IF watch
                THEN InitialEvents({f \in FsPaths : fs[f] # "absent"})
                ELSE <<>>
    /\ UNCHANGED <<watch, absRoots, fs, yielded, active, log, startFiles,
                   stale, changes, edits, served>>
    /\ UNCHANGED <<localeVars, loopVars>>

\* Lines 294-297: the 'all' handler gets the next event and passes its path
\* to processFile.
Deliver ==
    /\ watching
    /\ phase = "done"
    /\ Idle
    /\ queue # <<>>
    /\ queue' = Tail(queue)
    /\ ProcessFileStart(Head(queue).path, "watch")
    /\ served' = IF isMessageDefinitionsFile(Head(queue).path)
                 THEN served \cup {Head(queue).kind}
                 ELSE served
    /\ UNCHANGED <<watch, absRoots, fs, yielded, watching, startFiles,
                   changes, edits>>
    /\ UNCHANGED <<localeVars, loopVars>>

Without(seq, i) == SubSeq(seq, 1, i - 1) \o SubSeq(seq, i + 1, Len(seq))

\* Line 261: precompile writes the artifact, or fails with an I/O error.
Precompile(i, ok) ==
    /\ i \in 1..Len(active)
    /\ phase \in {"scanning", "done"}
    /\ active' = Without(active, i)
    /\ IF ok
       THEN /\ fs' = [fs EXCEPT ![active[i].out] = "written"]
            /\ queue' = Emit(active[i].out, "change")
            /\ log' = Append(log, Entry(active[i].path, active[i].src, "ok"))
            /\ phase' = phase
       ELSE /\ Failure(active[i].path, active[i].src)
            /\ UNCHANGED <<fs, queue>>
    /\ UNCHANGED <<watch, absRoots, yielded, watching, startFiles, stale,
                   changes, edits, served>>
    /\ UNCHANGED <<localeVars, loopVars>>

NextCompile ==
    \/ \E f \in DefFiles, content \in {"good", "bad"} : Modify(f, content)
    \/ \E f \in DefFiles, content \in {"good", "bad"} : Create(f, content)
    \/ \E f \in DefFiles : Delete(f)
    \/ \E f \in FsPaths : ScanNext(f)
    \/ FinishScan
    \/ Deliver
    \/ \E i \in 1..Len(active), ok \in BOOLEAN : Precompile(i, ok)

SpecCompile == InitCompile /\ [][NextCompile]_vars

-----------------------------------------------------------------------------
(* Claims about the IntlManager, checked under SpecLocale *)

\* Every callback registered when the finished call began was invoked
\* exactly once with the call's locale, and currentLocale is that locale.
NotifiedOnce(call) ==
    /\ call.current = call.locale
    /\ \A c \in call.atStart : call.count[c] = 1

\* C1 as stated: after any setLocale(L) that returns, currentLocale = L and
\* every callback registered at call time was invoked exactly once with L,
\* whatever the subscribers did during the round.
C1_Original == lastCall.kind = "returned" => NotifiedOnce(lastCall)

\* C1 amended: after a setLocale(L) that returns and during which no
\* disposer removed a subscription and no subscriber called setLocale again,
\* currentLocale = L and every callback registered at call time was invoked
\* exactly once with L (subscribing during the round does not change this).
C1_NotifiedOnceWhenUndisturbed ==
    (lastCall.kind = "returned" /\ ~lastCall.removed /\ ~lastCall.reentered)
        => NotifiedOnce(lastCall)

\* A round over two subscribers returned undisturbed, and a third callback
\* was subscribed while it ran.
C1_Witness ==
    /\ lastCall.kind = "returned"
    /\ ~lastCall.removed
    /\ ~lastCall.reentered
    /\ Cardinality(lastCall.atStart) >= 2
    /\ LiveSet(subs) \ lastCall.atStart # {}

\* C2 as stated: a subscriber that throws does not prevent the remaining
\* subscribers registered at call time from being invoked with L.  (Rounds
\* disturbed by a disposer or a nested setLocale are left aside, so that only
\* the throw can keep a subscriber from being notified.)
C2_ThrowDoesNotStopRound ==
    (lastCall.kind # "none" /\ ~lastCall.removed /\ ~lastCall.reentered)
        => \A c \in lastCall.atStart : lastCall.count[c] >= 1

C10_Original == currentLocale # ""

\* C10 amended: currentLocale is always the string most recently handed to
\* the constructor or to setLocale, stored unvalidated; it is non-empty
\* whenever that string is.
C10_CurrentLocaleIsRequested ==
    /\ currentLocale = requested
    /\ requested # "" => currentLocale # ""

\* A re-entrant setLocale has replaced the locale of the outer call with a
\* non-empty one.
C10_Witness ==
    /\ Len(stack) = 2
    /\ stack[1].locale # stack[2].locale
    /\ requested = stack[2].locale
    /\ requested # ""

-----------------------------------------------------------------------------
(* Claims about the compile pipeline, checked under SpecCompile *)

\* The file lies in a directory the deny-list names.
InDeniedDir(file) == \E i \in 1..Len(file.dir) : file.dir[i] \in IgnoredDirs

\* The file is a compiled artifact.
IsArtifact(file) == EndsWith(file.name, OutSuffix)

\* A definition file under the roots that the deny-list does not exclude.
Eligible(file) ==
    /\ file \in DefFiles
    /\ StartsWith(file.dir, Cwd \o RootDir)
    /\ ~InDeniedDir(file)

\* Positions of the log where processFile was called for `file` by `src`.
Calls(file, src) ==
    {i \in 1..Len(log) : log[i].src = src /\ Canon(log[i].path) = file}

Running(file, src) ==
    {i \in 1..Len(active) :
        active[i].src = src /\ Canon(active[i].path) = file}

Pending(file) ==
    {i \in 1..Len(queue) : Canon(queue[i].path) = file}

\* Nothing is left to do: no invocation in progress, no event undelivered.
Quiet == phase = "done" /\ active = <<>> /\ queue = <<>>

\* C3: a failure of processDefinitionsFile or precompile never leaves
\* processFile: no error reaches the scan loop or the watch callback, and a
\* scan in which a compile failed still passes every discovered file to
\* processFile.
C3_FaultIsolation ==
    /\ phase \in {"scanning", "done"}
    /\ \A i \in 1..Len(log) : log[i].outcome \in {"ok", "failed", "skipped"}
    /\ \A i \in 1..Len(log) :
        (log[i].src = "scan" /\ log[i].outcome = "failed" /\ phase = "done")
            => \A f \in startFiles :
                    Eligible(f) => Calls(f, "scan") \cup Running(f, "scan") # {}

\* A compile failed during the scan and another file was compiled after it;
\* a compile failed for a watch event and a later event of another file was
\* compiled.
C3_Witness ==
    /\ \E i, j \in 1..Len(log) :
        /\ i < j
        /\ log[i].src = "scan" /\ log[i].outcome = "failed"
        /\ log[j].src = "scan" /\ log[j].outcome = "ok"
        /\ Canon(log[i].path) # Canon(log[j].path)
    /\ \E i, j \in 1..Len(log) :
        /\ i < j
        /\ log[i].src = "watch" /\ log[i].outcome = "failed"
        /\ log[j].src = "watch" /\ log[j].outcome = "ok"
        /\ Canon(log[i].path) # Canon(log[j].path)

C5_NoChangeLost ==
    (Quiet /\ watching)
        => \A f \in yielded : (Eligible(f) /\ fs[f] # "absent") => ~stale[f]

\* C6: no two invocations of processFile for the same file are in progress
\* at once.
C6_NoOverlapPerPath ==
    \A i, j \in 1..Len(active) :
        i # j => Canon(active[i].path) # Canon(active[j].path)

\* A watch invocation for a file the scan already compiled is between its
\* two compiler calls while another event of the same file is waiting.
C6_Witness ==
    /\ Len(active) = 1
    /\ active[1].src = "watch"
    /\ Calls(Canon(active[1].path), "scan") # {}
    /\ Pending(Canon(active[1].path)) # {}

\* C7: with the watcher attached, the processFile invocations made for a
\* definition file (finished, in progress or still queued as an event) are
\* exactly as many as the changes made to it since the watcher attached;
\* no invocation is made for any other path, none for a denied file, and
\* none merely for attaching.
C7_OneInvocationPerChange ==
    /\ \A f \in DefFiles :
        Cardinality(Calls(f, "watch")) + Cardinality(Running(f, "watch"))
            + Cardinality(Pending(f))
        = IF Eligible(f) THEN changes[f] ELSE 0
    /\ \A i \in 1..Len(log) :
        log[i].src = "watch" => Canon(log[i].path) \in DefFiles
    /\ \A i \in 1..Len(queue) : Canon(queue[i].path) \in DefFiles

\* One file was changed after the watcher attached and processFile ran once
\* for it; another file that existed at attach time caused no invocation.
C7_Witness ==
    /\ Quiet /\ watching
    /\ \E f, g \in startFiles :
        /\ Eligible(f) /\ Eligible(g) /\ f # g
        /\ changes[f] = 1 /\ Cardinality(Calls(f, "watch")) = 1
        /\ changes[g] = 0 /\ Calls(g, "watch") = {}

\* C8: the compiler service is never called for a path in a denied directory
\* or for a compiled artifact; writing an artifact queues no event; and a
\* compile of the scan overwrites the artifact next to the definition file.
C8_NoDeniedNoArtifactInput ==
    /\ \A i \in 1..Len(log) :
        log[i].outcome # "skipped" =>
            /\ ~InDeniedDir(Canon(log[i].path))
            /\ ~IsArtifact(log[i].path)
    /\ \A i \in 1..Len(active) :
        /\ ~InDeniedDir(Canon(active[i].path))
        /\ ~IsArtifact(active[i].path)
    /\ \A i \in 1..Len(queue) : ~IsArtifact(queue[i].path)
    /\ \A i \in 1..Len(log) :
        (log[i].src = "scan" /\ log[i].outcome = "ok")
            => fs[Sibling(Canon(log[i].path))] = "written"

\* The scenario: a.messages.js, its stale artifact and a definition file in
\* a denied directory; the scan compiled a.messages.js only and overwrote
\* the artifact.
C8_Witness ==
    /\ phase = "done"
    /\ startFiles = {FileA, FileB}
    /\ fs[FileB] = "good"
    /\ fs[Sibling(FileA)] = "written"
    /\ Len(log) = 1
    /\ log[1] = Entry(AbsForm(FileA), "scan", "ok")

-----------------------------------------------------------------------------
(* Claims about the coalescing loop, checked under SpecCoalesce *)

IsLiteral(part) == part.type = "literal"

\* The positions where a maximal run of literal parts, or a part of another
\* type, begins.
RunStarts(ps) ==
    {i \in 1..Len(ps) :
        ~IsLiteral(ps[i]) \/ i = 1 \/ ~IsLiteral(ps[i - 1])}

\* The last position of the run that begins at i.
RunEnd(ps, i) ==
    IF ~IsLiteral(ps[i]) THEN i
    ELSE CHOOSE j \in i..Len(ps) :
            /\ \A k \in i..j : IsLiteral(ps[k])
            /\ j = Len(ps) \/ ~IsLiteral(ps[j + 1])

RECURSIVE Concatenation(_, _, _)
\* The values of the parts i..j, concatenated in order.
Concatenation(ps, i, j) ==
    IF i = j THEN ps[i].value
    ELSE ps[i].value \o Concatenation(ps, i + 1, j)

\* The position where the n-th run begins.
NthStart(ps, n) ==
    CHOOSE i \in RunStarts(ps) :
        Cardinality({k \in RunStarts(ps) : k <= i}) = n

\* One entry per run, in source order.
ExpectedEntries(ps) ==
    [n \in 1..Cardinality(RunStarts(ps)) |->
        Concatenation(ps, NthStart(ps, n), RunEnd(ps, NthStart(ps, n)))]

ExpectedOrigins(ps) ==
    [n \in 1..Cardinality(RunStarts(ps)) |-> ps[NthStart(ps, n)].type]

\* C11: no two adjacent entries of the result both come from literal parts,
\* and when the loop has ended the result holds one entry per maximal run
\* of literal parts (their concatenation in order) and one entry per other
\* part, in source order, no run being merged across another part.
C11_CoalescedRuns ==
    /\ \A n \in 1..(Len(origins) - 1) :
            ~(origins[n] = "literal" /\ origins[n + 1] = "literal")
    /\ Len(origins) = Len(result)
    /\ cursor = Len(parts) =>
            /\ result = ExpectedEntries(parts)
            /\ origins = ExpectedOrigins(parts)

\* A run of two literals, another part, then a literal again, all consumed.
C11_Witness ==
    /\ parts = <<Literal("x"), Literal("y"), Element("f1")>>
    /\ cursor = Len(parts)
    /\ result = <<"xy", "f1">>

-----------------------------------------------------------------------------
(* Claims about the formatting methods, checked under SpecFormat *)

\* The call just made was formatToParts and it invoked a compiled message.
PartsFromTemplate ==
    /\ lastFormat.op = "formatToParts"
    /\ lastFormat.outcome.invoked

\* C12: the bindings formatToParts hands to the compiled message are the
\* defaults overridden key by key by the caller's bindings: the key set is
\* the union of both key sets, a key the caller supplied has the caller's
\* value, any other key the default's; with no caller bindings they are
\* the defaults.
C12_CallerOverridesDefaults ==
    PartsFromTemplate =>
        LET defaults == lastFormat.before
            values == lastFormat.values
            effective == lastFormat.outcome.bindings
        IN IF values = Undefined
           THEN effective = defaults
           ELSE /\ DOMAIN effective = DOMAIN defaults \cup DOMAIN values
                /\ \A k \in DOMAIN effective :
                        effective[k] = IF k \in DOMAIN values
                                       THEN values[k]
                                       ELSE defaults[k]

\* The caller overrides the default binding of tag b.
C12_Witness ==
    /\ PartsFromTemplate
    /\ lastFormat.before = [b |-> "f1"]
    /\ lastFormat.values = [b |-> "f3"]
    /\ lastFormat.outcome.bindings = [b |-> "f3"]

-----------------------------------------------------------------------------
(* Further claims about the compile run, checked under SpecCompile *)

\* C13: for every definition-file path handed to processFile, absolute (from
\* the scan) or relative (from a watch event), the artifact path passed to
\* precompile is that path with `.messages.js` replaced by
\* `.compiled.messages.jsona`, in the directory of the definition file; scan
\* and watch give the same artifact path for the same file.
C13_ArtifactNextToSource ==
    /\ \A i \in 1..Len(active) :
            active[i].out = Sibling(Canon(active[i].path))
    /\ \A i, j \in 1..Len(active) :
            Canon(active[i].path) = Canon(active[j].path)
                => active[i].out = active[j].out

\* What InitCompile puts at the artifact path of a definition file.
InitialArtifact(file) == IF file = FileA THEN "old" ELSE "absent"

\* Positions of the log where a compile of `file` ended with `outcome`.
Ended(file, outcome) ==
    {i \in 1..Len(log) :
        Canon(log[i].path) = file /\ log[i].outcome = outcome}

\* C14: a definition file whose compiles have all failed keeps the artifact
\* it had (stale or absent); a failure stops neither the scan nor the watch
\* handler; and when a change event for a file that failed before leads to
\* a compile that succeeds, the artifact of that file has been written.
C14_FailureLeavesArtifactUntilRecompiled ==
    /\ \A f \in DefFiles :
            Ended(f, "failed") # {} /\ Ended(f, "ok") = {}
                => fs[Sibling(f)] = InitialArtifact(f)
    /\ phase \notin {"rejected", "crashed"}
    /\ \A f \in DefFiles : \A i \in Ended(f, "failed"), j \in Ended(f, "ok") :
            i < j /\ log[j].src = "watch" => fs[Sibling(f)] = "written"

-----------------------------------------------------------------------------
(* Further claims about the IntlManager, checked under SpecLocale *)

\* A round in which a disposer removed a subscription, and no setLocale was
\* nested, has returned: every callback registered when it began and still
\* registered was invoked.
RoundCompleted ==
    lastCall.kind = "returned" /\ lastCall.removed /\ ~lastCall.reentered
        => \A c \in lastCall.atStart \cap LiveSet(subs) :
                lastCall.count[c] >= 1

\* A disposer is invoked from inside a subscriber callback.
DisposedInFlight == stack # <<>> /\ \E c \in Callbacks : Dispose(c)

\* C15: a disposer invoked while a notification round is in flight, for the
\* running subscriber or for another one, does not raise (the callback goes
\* on, the round is still in flight), and the round then completes for the
\* subscribers that remain.
C15_DisposeInFlight ==
    [][/\ DisposedInFlight =>
            /\ ~unwinding'
            /\ Len(stack') = Len(stack)
            /\ stack'[Len(stack')].running = Top.running
       /\ RoundCompleted']_vars

\* f and g were registered; f was disposed of during the round; g, which
\* remains, was notified and the call returned.
C15_Witness ==
    /\ lastCall.kind = "returned"
    /\ lastCall.removed
    /\ ~lastCall.reentered
    /\ lastCall.atStart = {"f", "g"}
    /\ subs = <<"g">>
    /\ lastCall.count["g"] = 1

-----------------------------------------------------------------------------
(* Further claims about the formatting methods, checked under SpecFormat *)

\* The literal text the message of the call just made stands for in the
\* locale that was current, or None when it stands for a compiled message.
LiteralOf(call) ==
    IF call.message.typeof = "string" THEN call.message.text
    ELSE IF call.message.typeof = "function"
            /\ Call(call.message, call.locale).typeof = "string"
    THEN Call(call.message, call.locale).text
    ELSE None

\* C16: for a literal message M, and for a resolvable message that resolves
\* to the literal M in the current locale, formatToParts gives [M],
\* formatToPlainString gives M and string gives M, and no compiled message
\* is invoked.
C16_LiteralFastPath ==
    lastFormat.op \in {"formatToParts", "formatToPlainString", "string"}
        /\ LiteralOf(lastFormat) # None
    => /\ ~lastFormat.outcome.threw
       /\ ~lastFormat.outcome.invoked
       /\ IF lastFormat.op = "formatToParts"
          THEN lastFormat.outcome.result = <<LiteralOf(lastFormat)>>
          ELSE lastFormat.outcome.result = LiteralOf(lastFormat)

\* string() of a getter that is a literal in French only, after the locale
\* was changed from another default to French.
C16_Witness ==
    /\ lastFormat.op = "string"
    /\ lastFormat.message = Getter("mixed")
    /\ lastFormat.locale = "fr"
    /\ defaultLocale = "en-US"
    /\ lastFormat.outcome.result = "salut"
    /\ ~lastFormat.outcome.invoked

\* C17: no operation of the IntlManager changes defaultRichTextElements
\* after construction; formatToParts with caller bindings computes the
\* effective bindings and leaves the defaults as they were.
C17_DefaultsNeverMutated ==
    [][defaultRichTextElements' = defaultRichTextElements]_vars

\* formatToParts was called with caller bindings that override a default,
\* and the defaults are what they were.
C17_Witness ==
    /\ PartsFromTemplate
    /\ lastFormat.values = [b |-> "f3"]
    /\ lastFormat.outcome.bindings = [b |-> "f3"]
    /\ defaultRichTextElements = [b |-> "f1"]

-----------------------------------------------------------------------------
(* A further claim about the watcher, checked under SpecCompile *)

\* C18: the watcher passes a path to the compiler service only for events
\* that create or modify a definition file after attachment (a rename is
\* reported as a removal and a creation); attach-time events and the other
\* kinds of events, the removal of a definition file among them, never
\* reach the compiler service.
C18_OnlyCreateOrModifyCompiled ==
    served \subseteq {"add", "change"}

-----------------------------------------------------------------------------
(* Claims about the subscription registry and about nested setLocale calls,
   checked under SpecLocale *)

\* No callback is a live entry of the registry twice.
NoDuplicate ==
    \A i, j \in 1..Len(subs) :
        subs[i] = subs[j] /\ subs[i] # Empty => i = j

\* C19: the registry never holds the same callback twice; registering a
\* callback that is registered leaves its one subscription as it is; that
\* subscription is invoked once by a setLocale that runs undisturbed; and
\* any disposer returned for the callback removes it.
C19_OneSubscriptionPerCallback ==
    [][/\ NoDuplicate'
       /\ \A c \in LiveSet(subs) : OnLocaleChange(c) => subs' = subs
       /\ \A c \in Callbacks : Dispose(c) => c \notin LiveSet(subs')
       /\ (lastCall.kind = "returned" /\ ~lastCall.removed
                /\ ~lastCall.reentered
            => \A c \in lastCall.atStart : lastCall.count[c] = 1)']_vars

\* The only subscriber, f, has registered itself again from inside its
\* callback: the registry still holds it once.
C19_Witness ==
    /\ Len(stack) = 1
    /\ steps = 1
    /\ Top.running = "f"
    /\ Top.count["f"] = 1
    /\ ~Top.removed
    /\ ~Top.reentered
    /\ disposers = {"f"}
    /\ subs = <<"f">>

\* C20: when a subscriber called setLocale again from inside a notification
\* round, then once the outermost setLocale has returned (nothing thrown,
\* nothing disposed of on the way) the locale each subscriber registered
\* when it began was last notified with is currentLocale.
C20_NoStaleLocaleAfterReentry ==
    (/\ stack = <<>>
     /\ lastCall.kind = "returned"
     /\ lastCall.reentered
     /\ ~lastCall.removed
     /\ ~lastCall.caught)
        => \A c \in lastCall.atStart :
                seen[c] # None => seen[c] = currentLocale

====
